---- MODULE Spec2Model ----
(***************************************************************************)
(* State-machine model of flight_rs/src/main.rs: the startup path of main  *)
(* (generate_record_batch, generate_record_batches, max_rows), the         *)
(* FlightServiceImpl handlers, and the stream that do_get hands to the     *)
(* transport (arrow_flight's FlightDataEncoder over stream::iter(batches)).*)
(***************************************************************************)
EXTENDS Integers, Sequences, FiniteSets, TLC

\* ---------------------------------------------------------------- bounds
MaxColumns == 2         \* NUM_COLUMNS ranges over 0..MaxColumns
MaxTotalRows == 3       \* NUM_ROWS ranges over 0..MaxTotalRows
MaxMaxRows == 2         \* MAX_ROWS, when set, ranges over 0..MaxMaxRows
NumCalls == 2           \* concurrent do_get calls
NumTickets == 2         \* distinct ticket contents
\* The encoder's target frame size, scaled down so that a batch of the model
\* is split into several frames the way a 20000 x 30 batch is at 2 MiB.
MaxFlightDataSize == 16
\* Batches the process can hold before an allocation fails (the process
\* aborts); always above what any MAX_ROWS >= 1 run needs.
MemCapacity == MaxTotalRows + 2

\* ------------------------------------------------------- program constants
DefaultMaxRows == 20000
I32Max == 2147483647

Calls == 1..NumCalls
Tickets == 1..NumTickets

VARIABLES
    pc,               \* position of main
    n_columns,        \* main: n_columns
    n_rows,           \* main: n_rows
    MAX_ROWS,         \* the MAX_ROWS environment variable: <<>> unset/unparsable, <<v>> parsed
    large_batch,      \* FlightServiceImpl.large_batch: <<>> before construction, <<b>> after
    chunked_bathes,   \* FlightServiceImpl.chunked_bathes
    batches,          \* generate_record_batches: batches
    remaining_rows,   \* generate_record_batches: remaining_rows
    streams,          \* per do_get call: the returned DoGetStream and what the consumer got
    last_call         \* outcome of the most recent stub call: <<>> or <<[code, frames]>>

vars == <<pc, n_columns, n_rows, MAX_ROWS, large_batch, chunked_bathes,
          batches, remaining_rows, streams, last_call>>

\* ------------------------------------------------------------ Result<T, E>
Ok(v) == [ok |-> TRUE, val |-> v]
Err(e) == [ok |-> FALSE, err |-> e]

Min(a, b) == IF a <= b THEN a ELSE b
Max(a, b) == IF a >= b THEN a ELSE b

\* `i as i32` on a usize: value-preserving up to i32::MAX, wrapping above.
AsI32(i) == IF i <= I32Max THEN i ELSE (i - I32Max) - I32Max - 2

\* Field::new(&format!("col{}", i), DataType::Int32, false); the name is kept
\* as the pair of its prefix and the formatted index.
Field(i) == [name |-> <<"col", i>>, data_type |-> "Int32", nullable |-> FALSE]

\* RecordBatch::try_new(schema, columns): the row count is taken from the
\* first column, so a batch without columns is rejected.
RecordBatch_try_new(schema, columns) ==
    IF Len(schema) # Len(columns)
    THEN Err("number of columns must match number of fields in schema")
    ELSE IF Len(columns) = 0
    THEN Err("must either specify a row count or at least one column")
    ELSE IF \E c \in 1..Len(columns) : Len(columns[c]) # Len(columns[1])
    THEN Err("all columns in a record batch must have the same length")
    ELSE Ok([schema |-> schema, columns |-> columns, num_rows |-> Len(columns[1])])

\* Variant of generate_record_batch whose values count from one.
generate_record_batch_onebased(n, m) ==
    LET fields == [i \in 1..n |-> Field(i - 1)]
        columns == [c \in 1..n |-> [r \in 1..m |-> AsI32(r)]]
    IN RecordBatch_try_new(fields, columns)

generate_record_batch(n, m) ==
    LET fields == [i \in 1..n |-> Field(i - 1)]
        columns == [c \in 1..n |-> [r \in 1..m |-> AsI32(r - 1)]]
    IN RecordBatch_try_new(fields, columns)

\* env::var("MAX_ROWS").ok().and_then(parse).unwrap_or(20_000)
max_rows == IF MAX_ROWS = <<>> THEN DefaultMaxRows ELSE MAX_ROWS[1]

\* Variant of batch_rows without the min: a full batch even when fewer rows remain.
batch_rows_nomin == max_rows

\* Variant of batch_rows with the bound off by one.
batch_rows_short == Min(remaining_rows, Max(max_rows - 1, 1))

\* std::cmp::min(remaining_rows, max_rows())
batch_rows == Min(remaining_rows, max_rows)

\* RecordBatch::slice(offset, length): the same schema, each column narrowed.
slice(b, offset, length) ==
    [schema |-> b.schema,
     columns |-> [c \in 1..Len(b.columns) |-> SubSeq(b.columns[c], offset + 1, offset + length)],
     num_rows |-> length]

\* ------------------------------------------------- the do_get stream (line 90)
SchemaFrame(schema) == [kind |-> "schema", schema |-> schema]
\* A data frame carries the columns of one slice; batch and offset record
\* which batch of the input, and which rows of it, the frame was encoded from.
DataFrame(k, offset, b) == [kind |-> "data", batch |-> k, offset |-> offset, columns |-> b.columns]
\* .map_err(|e| Status::internal(e.to_string()))
StatusInternal(cause) == [kind |-> "error", code |-> "Internal", message |-> cause]
EncodeError == "Ipc error"

\* Buffer bytes of a batch: four bytes per Int32 value.
BatchSize(b) == Len(b.columns) * b.num_rows * 4

RECURSIVE SplitFrom(_, _, _, _)
SplitFrom(k, b, rows_per_batch, offset) ==
    IF offset < b.num_rows
    THEN LET length == Min(rows_per_batch, b.num_rows - offset)
         IN <<DataFrame(k, offset, slice(b, offset, length))>>
                \o SplitFrom(k, b, rows_per_batch, offset + length)
    ELSE <<>>

\* split_batch_for_grpc_response followed by the encoding of each part.
EncodeParts(k, b) ==
    LET size == BatchSize(b)
        n_batches == (size \div MaxFlightDataSize)
                        + (IF size % MaxFlightDataSize # 0 THEN 1 ELSE 0)
        rows_per_batch == Max(b.num_rows \div n_batches, 1)
    IN SplitFrom(k, b, rows_per_batch, 0)

\* FlightDataEncoder::encode_batch: the schema message is queued when the
\* first batch is seen (no schema was given to the builder), then the parts
\* one by one.  fail = 0: every part is encoded; fail = j: the encoding of
\* part j returns an error, after the parts before it were queued.
encode_batch(s, k, b, fail) ==
    LET parts == EncodeParts(k, b)
        queued == (IF s.schema THEN <<>> ELSE <<SchemaFrame(b.schema)>>)
                    \o (IF fail = 0 THEN parts ELSE SubSeq(parts, 1, fail - 1))
    IN IF fail = 0 THEN Ok(queued) ELSE [ok |-> FALSE, err |-> EncodeError, val |-> queued]

\* The parts whose encoding can fail in the next poll of s.
FailChoices(s) ==
    IF ~s.done /\ s.queue = <<>> /\ s.inner < Len(s.input)
    THEN 0..Len(EncodeParts(s.inner + 1, s.input[s.inner + 1]))
    ELSE {0}

\* Variant of poll_next that encodes every remaining batch on the first pull.
poll_next_eager(s, fail) ==
    IF s.done /\ s.queue = <<>>
    THEN [s EXCEPT !.state = "ended"]
    ELSE IF s.queue # <<>>
    THEN [s EXCEPT !.queue = Tail(@), !.out = Append(@, Head(s.queue))]
    ELSE IF s.inner = Len(s.input)
    THEN [s EXCEPT !.done = TRUE, !.state = "ended"]
    ELSE LET q == <<SchemaFrame(s.input[1].schema)>>
                    \o [x \in 1..Len(s.input) |-> DataFrame(x, 0, s.input[x])]
         IN [s EXCEPT !.inner = Len(s.input), !.schema = TRUE,
                      !.queue = Tail(q), !.out = Append(@, Head(q))]

\* Variant of poll_next that reports a failed encoding but keeps what was
\* queued before the failure.
poll_next_noclear(s, fail) ==
    IF s.done /\ s.queue = <<>>
    THEN [s EXCEPT !.state = "ended"]
    ELSE IF s.queue # <<>>
    THEN [s EXCEPT !.queue = Tail(@), !.out = Append(@, Head(s.queue))]
    ELSE IF s.inner = Len(s.input)
    THEN [s EXCEPT !.done = TRUE, !.state = "ended"]
    ELSE LET r == encode_batch(s, s.inner + 1, s.input[s.inner + 1], fail)
         IN IF ~r.ok
            THEN [s EXCEPT !.inner = @ + 1, !.schema = TRUE, !.done = TRUE,
                           !.queue = r.val,
                           !.out = Append(@, StatusInternal(r.err))]
            ELSE [s EXCEPT !.inner = @ + 1, !.schema = TRUE,
                           !.queue = Tail(r.val), !.out = Append(@, Head(r.val))]

\* FlightDataEncoder::poll_next over stream::iter(batches).map(Ok), which is
\* always ready.
poll_next(s, fail) ==
    IF s.done /\ s.queue = <<>>
    THEN [s EXCEPT !.state = "ended"]
    ELSE IF s.queue # <<>>
    THEN [s EXCEPT !.queue = Tail(@), !.out = Append(@, Head(s.queue))]
    ELSE IF s.inner = Len(s.input)
    THEN [s EXCEPT !.done = TRUE, !.state = "ended"]
    ELSE LET r == encode_batch(s, s.inner + 1, s.input[s.inner + 1], fail)
         IN IF ~r.ok
            THEN [s EXCEPT !.inner = @ + 1, !.schema = TRUE, !.done = TRUE,
                           !.queue = <<>>,
                           !.out = Append(@, StatusInternal(r.err))]
            ELSE [s EXCEPT !.inner = @ + 1, !.schema = TRUE,
                           !.queue = Tail(r.val), !.out = Append(@, Head(r.val))]

\* Lines 87-88: the batches handed to the encoder.
do_get_batches == [k \in 1..Len(chunked_bathes) |->
                      slice(chunked_bathes[k], 0, chunked_bathes[k].num_rows)]

\* ------------------------------------------------------------------- Init
NoStream == [state |-> "none", input |-> <<>>, inner |-> 0,
             queue |-> <<>>, done |-> FALSE, schema |-> FALSE, out |-> <<>>]

Init ==
    /\ pc = "main"
    /\ n_columns \in 0..MaxColumns
    /\ n_rows \in 0..MaxTotalRows
    /\ MAX_ROWS \in {<<>>} \cup {<<v>> : v \in 0..MaxMaxRows}
    /\ large_batch = <<>>
    /\ chunked_bathes = <<>>
    /\ batches = <<>>
    /\ remaining_rows = 0
    /\ streams = [i \in Calls |-> NoStream]
    /\ last_call = <<>>

\* ---------------------------------------------------------------- startup
\* main, line 137: large_batch: generate_record_batch(n_columns, n_rows).unwrap(),
\* then the entry of generate_record_batches (lines 156-157).
main_large_batch ==
    /\ pc = "main"
    /\ LET r == generate_record_batch(n_columns, n_rows) IN
        IF r.ok
        THEN /\ large_batch' = <<r.val>>
             /\ batches' = <<>>
             /\ remaining_rows' = n_rows
             /\ pc' = "chunking"
        ELSE /\ pc' = "panicked"
             /\ UNCHANGED <<large_batch, batches, remaining_rows>>
    /\ UNCHANGED <<n_columns, n_rows, MAX_ROWS, chunked_bathes, streams, last_call>>

\* One iteration of the while loop of generate_record_batches (lines 159-166).
generate_record_batches_step ==
    /\ pc = "chunking"
    /\ remaining_rows > 0
    /\ LET r == generate_record_batch(n_columns, batch_rows) IN
        IF ~r.ok
        THEN /\ pc' = "panicked"
             /\ UNCHANGED <<batches, remaining_rows>>
        ELSE IF Len(batches) >= MemCapacity
        THEN /\ pc' = "aborted"
             /\ UNCHANGED <<batches, remaining_rows>>
        ELSE /\ batches' = Append(batches, r.val)
             /\ remaining_rows' = remaining_rows - batch_rows
             /\ pc' = "chunking"
    /\ UNCHANGED <<n_columns, n_rows, MAX_ROWS, large_batch, chunked_bathes, streams, last_call>>

\* Loop exit, Ok(batches) (line 168), the unwrap of line 138 and the
\* construction of the service; the server then serves (lines 141-143).
generate_record_batches_return ==
    /\ pc = "chunking"
    /\ ~(remaining_rows > 0)
    /\ chunked_bathes' = batches
    /\ pc' = "serving"
    /\ UNCHANGED <<n_columns, n_rows, MAX_ROWS, large_batch, batches, remaining_rows, streams, last_call>>

\* ---------------------------------------------------------------- serving
UnchangedService == UNCHANGED <<pc, n_columns, n_rows, MAX_ROWS, large_batch,
                                chunked_bathes, batches, remaining_rows>>

\* Variant of do_get that serves the Dataset for the first ticket only.
do_get_by_ticket(i, ticket) ==
    /\ pc = "serving"
    /\ streams[i].state = "none"
    /\ streams' = [streams EXCEPT ![i] =
            [state |-> "open",
             input |-> IF ticket = 1 THEN do_get_batches ELSE <<>>,
             inner |-> 0, queue |-> <<>>, done |-> FALSE, schema |-> FALSE,
             out |-> <<>>]]
    /\ UNCHANGED last_call
    /\ UnchangedService

\* do_get (lines 78-93): builds the stream and returns Ok(Response); the
\* request (_request) is never read.
do_get(i, ticket) ==
    /\ pc = "serving"
    /\ streams[i].state = "none"
    /\ streams' = [streams EXCEPT ![i] =
            [state |-> "open", input |-> do_get_batches,
             inner |-> 0, queue |-> <<>>, done |-> FALSE, schema |-> FALSE,
             out |-> <<>>]]
    /\ UNCHANGED last_call
    /\ UnchangedService

\* The transport pulls the next item of call i's stream.
Pull(i) ==
    /\ streams[i].state = "open"
    /\ \E fail \in FailChoices(streams[i]) :
            streams' = [streams EXCEPT ![i] = poll_next(@, fail)]
    /\ UNCHANGED last_call
    /\ UnchangedService

\* The consumer of call i goes away: the stream is dropped.
Cancel(i) ==
    /\ streams[i].state = "open"
    /\ streams' = [streams EXCEPT ![i].state = "dropped"]
    /\ UNCHANGED last_call
    /\ UnchangedService

\* The verbs of the service other than do_get.
StubVerbs == {"handshake", "list_flights", "get_flight_info", "poll_flight_info",
              "get_schema", "do_put", "do_action", "list_actions", "do_exchange"}

\* Variant of Unimplemented that answers with another status code.
Unimplemented_internal(verb) ==
    /\ pc = "serving"
    /\ verb \in StubVerbs
    /\ last_call' = <<[code |-> "Internal", frames |-> <<>>]>>
    /\ UNCHANGED streams
    /\ UnchangedService

\* Err(Status::unimplemented("Implement <verb>")): the handler returns the
\* status at once, with no response stream.
Unimplemented(verb) ==
    /\ pc = "serving"
    /\ verb \in StubVerbs
    /\ last_call' = <<[code |-> "Unimplemented", frames |-> <<>>]>>
    /\ UNCHANGED streams
    /\ UnchangedService

handshake == Unimplemented("handshake")
list_flights == Unimplemented("list_flights")
get_flight_info == Unimplemented("get_flight_info")
poll_flight_info == Unimplemented("poll_flight_info")
get_schema == Unimplemented("get_schema")
do_put == Unimplemented("do_put")
do_action == Unimplemented("do_action")
list_actions == Unimplemented("list_actions")
do_exchange == Unimplemented("do_exchange")

StubCall ==
    \/ handshake
    \/ list_flights
    \/ get_flight_info
    \/ poll_flight_info
    \/ get_schema
    \/ do_put
    \/ do_action
    \/ list_actions
    \/ do_exchange

\* The process from its start to the moment it serves.
NextStartup ==
    \/ main_large_batch
    \/ generate_record_batches_step
    \/ generate_record_batches_return

\* Startup, then any number of concurrent retrievals.
NextRetrieval ==
    \/ main_large_batch
    \/ generate_record_batches_step
    \/ generate_record_batches_return
    \/ \E i \in Calls, t \in Tickets : do_get(i, t)
    \/ \E i \in Calls : Pull(i)
    \/ \E i \in Calls : Cancel(i)

\* Startup, then retrievals interleaved with calls of the other verbs.
Next ==
    \/ main_large_batch
    \/ generate_record_batches_step
    \/ generate_record_batches_return
    \/ \E i \in Calls, t \in Tickets : do_get(i, t)
    \/ \E i \in Calls : Pull(i)
    \/ \E i \in Calls : Cancel(i)
    \/ StubCall

SpecStartup == Init /\ [][NextStartup]_vars
SpecRetrieval == Init /\ [][NextRetrieval]_vars
Spec == Init /\ [][Next]_vars

\* ================================================================ properties
RECURSIVE SumRows(_)
SumRows(bs) == IF bs = <<>> THEN 0 ELSE bs[1].num_rows + SumRows(Tail(bs))

CeilDiv(a, b) == (a + b - 1) \div b

Range(f) == {f[x] : x \in DOMAIN f}

RECURSIVE AllParts(_, _)
\* The data frames of the batches k..Len(input), batch after batch.
AllParts(input, k) ==
    IF k > Len(input) THEN <<>> ELSE EncodeParts(k, input[k]) \o AllParts(input, k + 1)

HasError(out) == \E x \in 1..Len(out) : out[x].kind = "error"

\* The shape generate_record_batch(n, m) is specified to return.
IsBuilt(b, n, m) ==
    /\ b.num_rows = m
    /\ Len(b.schema) = n
    /\ Len(b.columns) = n
    /\ \A c \in 1..n :
        /\ b.schema[c] = [name |-> <<"col", c - 1>>, data_type |-> "Int32", nullable |-> FALSE]
        /\ Len(b.columns[c]) = m
        /\ \A r \in 1..m : b.columns[c][r] = r - 1
        /\ b.columns[c] = b.columns[1]

\* C1: with MAX_ROWS >= 1, the sequence generate_record_batches returns has
\* row counts summing to total_rows, no batch above MAX_ROWS, exactly
\* ceil(total_rows / MAX_ROWS) batches, and is empty iff total_rows = 0.
C1_ChunkSumBoundCount ==
    (pc = "serving" /\ max_rows >= 1) =>
        /\ SumRows(chunked_bathes) = n_rows
        /\ \A k \in 1..Len(chunked_bathes) : chunked_bathes[k].num_rows <= max_rows
        /\ Len(chunked_bathes) = CeilDiv(n_rows, max_rows)
        /\ (chunked_bathes = <<>>) <=> (n_rows = 0)

C1_Witness ==
    /\ pc = "serving"
    /\ max_rows = 2
    /\ n_rows = 3
    /\ Len(chunked_bathes) = 2
    /\ chunked_bathes[2].num_rows = 1

\* C2: with MAX_ROWS = 0 and total_rows > 0 the chunker is rejected as a
\* configuration error: it completes no loop iteration (no batch is ever
\* pushed) and the process neither serves nor runs out of memory looping.
C2_ZeroMaxRowsRejected ==
    (MAX_ROWS = <<0>> /\ n_rows > 0) =>
        /\ batches = <<>>
        /\ pc \notin {"serving", "aborted"}

\* C3: a do_get stream that completed without error emitted the schema frame
\* first, then the data frames of batch 1, batch 2, ... of the Dataset in
\* stored order, nothing skipped or duplicated; for every Dataset.
C3_SchemaThenBatchesInOrder ==
    \A i \in Calls :
        (streams[i].state = "ended" /\ ~HasError(streams[i].out)) =>
            streams[i].out = <<SchemaFrame([c \in 1..n_columns |-> Field(c - 1)])>>
                                \o AllParts(chunked_bathes, 1)

\* C4: with a Dataset of zero batches a completed do_get stream holds exactly
\* one schema frame, no data frame and no error.
C4_EmptyDatasetSchemaOnly ==
    \A i \in Calls :
        (streams[i].state = "ended" /\ chunked_bathes = <<>>) =>
            /\ Len(streams[i].out) = 1
            /\ streams[i].out[1].kind = "schema"

\* C5: a call of any of the nine non-retrieval verbs returns the
\* unimplemented status, produces no frames, and changes neither the
\* service's batches nor any stream.
C5_StubsUnimplemented ==
    /\ [](last_call # <<>> =>
            /\ last_call[1].code = "Unimplemented"
            /\ last_call[1].frames = <<>>)
    /\ [][last_call' # last_call =>
            /\ large_batch' = large_batch
            /\ chunked_bathes' = chunked_bathes
            /\ streams' = streams]_vars

C5_Witness ==
    /\ last_call # <<>>
    /\ \E i \in Calls : streams[i].state = "open" /\ streams[i].queue # <<>>

\* C6 as stated: for every column count >= 0 and row count >= 0 the builder
\* returns a batch of that shape (so main gets past its first unwrap).
C6_BuilderAnyColumnCount ==
    (pc # "main") =>
        /\ large_batch # <<>>
        /\ IsBuilt(large_batch[1], n_columns, n_rows)

\* C6 amended: for every column count >= 1 and row count >= 0 the builder
\* returns a batch with columns col0.. in order, each reading 0..rows-1;
\* with zero columns it returns an error instead.
C6_BuilderPositiveColumns ==
    (pc # "main") =>
        /\ n_columns >= 1 =>
            /\ large_batch # <<>>
            /\ IsBuilt(large_batch[1], n_columns, n_rows)
            /\ \A k \in 1..Len(batches) :
                    IsBuilt(batches[k], n_columns, batches[k].num_rows)
        /\ n_columns = 0 => (pc = "panicked" /\ large_batch = <<>>)

C6_Witness ==
    /\ pc = "chunking"
    /\ n_columns = 2
    /\ n_rows = 3
    /\ large_batch[1].columns = <<<<0, 1, 2>>, <<0, 1, 2>>>>

\* C7: the stream is pull-driven: the frames waiting in the queue all belong
\* to the one batch encoded last, every batch encoded before it has been
\* delivered in full, a batch is encoded only in a step that delivers an
\* item, and a dropped stream encodes nothing further.
C7_LazyOneBatchPending ==
    /\ [](\A i \in Calls :
            LET s == streams[i] IN
            /\ \A x \in 1..Len(s.queue) :
                    s.queue[x].kind = "data" /\ s.queue[x].batch = s.inner
            /\ \A k \in 1..(s.inner - 1) :
                    Range(EncodeParts(k, s.input[k])) \subseteq Range(s.out))
    /\ [][\A i \in Calls :
            /\ streams'[i].inner # streams[i].inner =>
                    /\ streams[i].state = "open"
                    /\ streams[i].queue = <<>>
                    /\ streams'[i].inner = streams[i].inner + 1
                    /\ Len(streams'[i].out) = Len(streams[i].out) + 1
            /\ streams[i].state = "dropped" => streams'[i] = streams[i]]_vars

C7_Witness ==
    \E i \in Calls :
        /\ streams[i].state = "dropped"
        /\ streams[i].inner = 1
        /\ Len(streams[i].input) >= 2
        /\ streams[i].queue # <<>>

\* C8: a failed encoding of batch k puts one internal-error item carrying the
\* cause on the stream and ends it: the error is the last item, no frame of
\* batch k or of a later batch is ever delivered, nothing is queued or
\* encoded afterwards, delivered items stay delivered, and a step of one
\* stream changes no other stream.
C8_EncodeFailureEndsStream ==
    /\ [](\A i \in Calls :
            LET s == streams[i] IN
            \A x \in 1..Len(s.out) :
                s.out[x].kind = "error" =>
                    /\ s.out[x] = [kind |-> "error", code |-> "Internal", message |-> EncodeError]
                    /\ x = Len(s.out)
                    /\ s.done /\ s.queue = <<>>
                    /\ \A y \in 1..Len(s.out) :
                            s.out[y].kind = "data" => s.out[y].batch < s.inner)
    /\ [][\A i \in Calls :
            /\ Len(streams[i].out) <= Len(streams'[i].out)
            /\ SubSeq(streams'[i].out, 1, Len(streams[i].out)) = streams[i].out
            /\ HasError(streams[i].out) =>
                    (streams'[i].out = streams[i].out /\ streams'[i].inner = streams[i].inner)
            /\ \A j \in Calls :
                    (j # i /\ streams'[i] # streams[i]) => streams'[j] = streams[j]]_vars

C8_Witness ==
    \E i, j \in Calls :
        /\ i # j
        /\ streams[i].state = "ended"
        /\ Len(streams[i].out) >= 3
        /\ streams[i].out[Len(streams[i].out)].kind = "error"
        /\ streams[i].inner = 2
        /\ streams[j].state = "ended"
        /\ ~HasError(streams[j].out)
        /\ Len(streams[j].out) > Len(streams[i].out)

\* C9: once serving, the Dataset never changes; every do_get, whatever its
\* ticket, succeeds and reads exactly the Dataset's batches; any two
\* retrievals that ran to completion delivered the same frames.
C9_DatasetImmutableTicketIgnored ==
    /\ [](\A i \in Calls :
            /\ streams[i].state # "none" =>
                    (pc = "serving" /\ streams[i].input = chunked_bathes)
            /\ \A j \in Calls :
                    ( /\ streams[i].state = "ended" /\ ~HasError(streams[i].out)
                      /\ streams[j].state = "ended" /\ ~HasError(streams[j].out) )
                        => streams[i].out = streams[j].out)
    /\ [][pc = "serving" =>
            /\ pc' = "serving"
            /\ chunked_bathes' = chunked_bathes
            /\ large_batch' = large_batch]_vars

C9_Witness ==
    /\ last_call # <<>>
    /\ \A i \in Calls :
        /\ streams[i].state = "ended"
        /\ ~HasError(streams[i].out)
        /\ Len(streams[i].out) >= 3

\* C10: with total_rows >= 1 and MAX_ROWS >= 1, throughout the loop the rows
\* pushed plus remaining_rows equal total_rows and remaining_rows never goes
\* below zero; no batch is empty, every batch but the last of the returned
\* sequence has exactly MAX_ROWS rows and the last has the rest.
C10_GreedyChunkShape ==
    (n_rows >= 1 /\ max_rows >= 1 /\ pc \in {"chunking", "serving"}) =>
        /\ remaining_rows >= 0
        /\ remaining_rows + SumRows(batches) = n_rows
        /\ \A k \in 1..Len(batches) : batches[k].num_rows >= 1
        /\ \A k \in 1..(Len(batches) - 1) : batches[k].num_rows = max_rows
        /\ pc = "serving" =>
            LET count == Len(chunked_bathes) IN
            /\ count >= 1
            /\ \A k \in 1..(count - 1) : chunked_bathes[k].num_rows = max_rows
            /\ chunked_bathes[count].num_rows = n_rows - (count - 1) * max_rows
            /\ chunked_bathes[count].num_rows \in 1..max_rows

C10_Witness ==
    /\ pc = "chunking"
    /\ n_rows = 3
    /\ max_rows = 2
    /\ remaining_rows = 1
    /\ Len(batches) = 1
    /\ batches[1].num_rows = 2
====
